---- MODULE Spec2Model ----
(***************************************************************************)
(* Answer mapping of qanta/ingestion/answer_mapping.py: the expansion and  *)
(* match rules, the title and redirect lookups, the mapping loop of        *)
(* mapping_rules_to_answer_map and the per-question reconciliation of      *)
(* unmapped_to_mapped_questions.                                           *)
(*                                                                         *)
(* A Python str is a sequence of characters; a character is a one-letter   *)
(* TLA+ string, and a character outside ASCII is written by its code point *)
(* ("U+00E1" is a with acute accent).  None is a sequence that is no str.   *)
(***************************************************************************)
EXTENDS Integers, Sequences, FiniteSets, TLC

None == <<"None">>

\* ------------------------------------------------------------ characters

a_acute == "U+00E1"
A_acute == "U+00C1"
rsquo == "U+2019"
ldquo == "U+201C"
rdquo == "U+201D"

UpperCase ==
    <<"A","B","C","D","E","F","G","H","I","J","K","L","M",
      "N","O","P","Q","R","S","T","U","V","W","X","Y","Z">>

LowerCase ==
    <<"a","b","c","d","e","f","g","h","i","j","k","l","m",
      "n","o","p","q","r","s","t","u","v","w","x","y","z">>

\* [a-zA-Z] of the regular expressions.
Letters == {UpperCase[i] : i \in 1..26} \cup {LowerCase[i] : i \in 1..26}

IsAlpha(c) == c \in Letters

\* \s of the regular expressions and the characters str.strip() removes.
IsSpace(c) == c \in {" ", "\t"}

\* str.lower() on one character.
ToLower ==
    [c \in {UpperCase[i] : i \in 1..26} |->
        LowerCase[CHOOSE i \in 1..26 : c = UpperCase[i]]]

LowerChar(c) ==
    IF c \in DOMAIN ToLower THEN ToLower[c]
    ELSE IF c = A_acute THEN a_acute ELSE c

\* unidecode() on one character: the ASCII transliteration, a string.
UnidecodeChar(c) ==
    CASE c = a_acute -> <<"a">>
      [] c = A_acute -> <<"A">>
      [] c = rsquo -> <<"'">>
      [] c = ldquo -> <<"\"">>
      [] c = rdquo -> <<"\"">>
      [] OTHER -> <<c>>

\* --------------------------------------------------------------- strings

\* str.lower()
lower(s) == [i \in 1..Len(s) |-> LowerChar(s[i])]

RECURSIVE unidecode(_)
unidecode(s) ==
    IF s = <<>> THEN <<>> ELSE UnidecodeChar(Head(s)) \o unidecode(Tail(s))

RECURSIVE lstrip(_)
lstrip(s) == IF s # <<>> /\ IsSpace(Head(s)) THEN lstrip(Tail(s)) ELSE s

RECURSIVE rstrip(_)
rstrip(s) ==
    IF s # <<>> /\ IsSpace(s[Len(s)]) THEN rstrip(SubSeq(s, 1, Len(s) - 1)) ELSE s

\* str.strip()
strip(s) ==
    IF s = <<>> THEN s
    ELSE IF IsSpace(s[1]) \/ IsSpace(s[Len(s)]) THEN rstrip(lstrip(s))
    ELSE s

\* s.startswith(p)
StartsWith(s, p) == Len(p) <= Len(s) /\ SubSeq(s, 1, Len(p)) = p

\* s[n:]
Drop(s, n) == SubSeq(s, n + 1, Len(s))

\* p in s
RECURSIVE Contains(_, _)
Contains(s, p) ==
    \/ StartsWith(s, p)
    \/ s # <<>> /\ Contains(Tail(s), p)

\* s.replace(old, new) for a non-empty old: left to right, not overlapping.
RECURSIVE ReplaceFrom(_, _, _)
ReplaceFrom(s, old, new) ==
    IF s = <<>> THEN <<>>
    ELSE IF StartsWith(s, old)
         THEN new \o ReplaceFrom(Drop(s, Len(old)), old, new)
         ELSE <<Head(s)>> \o ReplaceFrom(Tail(s), old, new)

replace(s, old, new) ==
    IF Len(old) = 1 /\ Len(new) = 1
    THEN [i \in 1..Len(s) |-> IF s[i] = old[1] THEN new[1] ELSE s[i]]
    ELSE ReplaceFrom(s, old, new)

\* re.sub('[chars]', '', s)
RemoveChars(s, chars) == SelectSeq(s, LAMBDA c : c \notin chars)

\* re.sub(r'\s+', ' ', s): every run of whitespace becomes one space.
RECURSIVE CollapseRuns(_)
CollapseRuns(s) ==
    IF s = <<>> THEN <<>>
    ELSE IF IsSpace(Head(s)) THEN <<" ">> \o CollapseRuns(lstrip(s))
    ELSE <<Head(s)>> \o CollapseRuns(Tail(s))

CollapseSpaces(s) ==
    IF \A i \in 1..Len(s) : ~IsSpace(s[i]) THEN s ELSE CollapseRuns(s)

\* ------------------------------------------------------- expansion rules
\* An expansion rule maps an answer to the sequence of strings it returns.

\* Length of the match of [^a-zA-Z]+or[^a-zA-Z]+ at the start of s, 0 if none.
RECURSIVE NonAlphaRun(_)
NonAlphaRun(s) ==
    IF s # <<>> /\ ~IsAlpha(Head(s)) THEN 1 + NonAlphaRun(Tail(s)) ELSE 0

OrMatchLen(s) ==
    LET k == NonAlphaRun(s)
        rest == Drop(s, k)
        m == NonAlphaRun(Drop(rest, 2))
    IN  IF k > 0 /\ StartsWith(rest, <<"o","r">>) /\ m > 0 THEN k + 2 + m ELSE 0

\* re.split('[^a-zA-Z]+or[^a-zA-Z]+', s), cur the piece read so far.
RECURSIVE SplitOr(_, _)
SplitOr(s, cur) ==
    IF s = <<>> THEN <<cur>>
    ELSE IF OrMatchLen(s) > 0
         THEN <<cur>> \o SplitOr(Drop(s, OrMatchLen(s)), <<>>)
         ELSE SplitOr(Tail(s), cur \o <<Head(s)>>)

or_rule(ans) ==
    LET splits == SplitOr(ans, <<>>)
    IN  IF Len(splits) > 1
        THEN [i \in 1..Len(splits) |-> strip(splits[i])]
        ELSE <<>>

\* Group 1 of re.match('(.+)<open>.*(?:kw1|kw2|..).*<close>', s), or None:
\* the longest non-empty prefix followed by open, a keyword and a later close.
KeywordThenClose(rest, kws, close) ==
    \E j \in 0..Len(rest) : \E kw \in kws :
        /\ StartsWith(Drop(rest, j), kw)
        /\ \E k \in (j + Len(kw) + 1)..Len(rest) : rest[k] = close

PromptPrefixes(s, open, close, kws) ==
    {i \in 1..(Len(s) - 1) :
        s[i + 1] = open /\ KeywordThenClose(Drop(s, i + 1), kws, close)}

PromptGroup(s, open, close, kws) ==
    LET I == PromptPrefixes(s, open, close, kws)
    IN  IF I = {} THEN None
        ELSE SubSeq(s, 1, CHOOSE i \in I : \A j \in I : j <= i)

PromptExtract(s, kws) ==
    IF PromptGroup(s, "(", ")", kws) # None
    THEN <<strip(PromptGroup(s, "(", ")", kws))>>
    ELSE IF PromptGroup(s, "[", "]", kws) # None
    THEN <<strip(PromptGroup(s, "[", "]", kws))>>
    ELSE <<>>

AcceptWords ==
    { <<"a","c","c","e","p","t">>, <<"p","r","o","m","p","t">>,
      <<"p","r","o","n","o","u","n","c","e">> }

prompt_rule(ans) ==
    LET l == lower(ans)
    IN  IF \E kw \in AcceptWords : Contains(l, kw)
        THEN PromptExtract(l, AcceptWords)
        ELSE IF Contains(l, <<"o","r">>)
        THEN PromptExtract(l, {<<"o","r">>})
        ELSE <<>>

\* The rule without ans.lower(): C22 fails on it.
the_rule_keeps_case(ans) ==
    IF Contains(lower(ans), <<"t","h","e">>)
    THEN <<replace(ans, <<"t","h","e">>, <<>>)>>
    ELSE <<(<<"t","h","e"," ">> \o ans)>>

the_rule(ans) ==
    LET l_ans == lower(ans)
    IN  IF Contains(l_ans, <<"t","h","e">>)
        THEN <<replace(l_ans, <<"t","h","e">>, <<>>)>>
        ELSE <<(<<"t","h","e"," ">> \o lower(l_ans))>>

apostraphe_rule(ans) ==
    IF Contains(ans, <<rsquo>>)
    THEN <<replace(ans, <<rsquo>>, <<"'">>), replace(ans, <<rsquo>>, <<>>)>>
    ELSE <<>>

answer_rule(ans) ==
    LET l_ans == lower(ans)
        answers == <<"a","n","s","w","e","r","s",":">>
        answer == <<"a","n","s","w","e","r",":">>
    IN  IF Contains(l_ans, answers) THEN <<replace(l_ans, answers, <<>>)>>
        ELSE IF Contains(l_ans, answer) THEN <<replace(l_ans, answer, <<>>)>>
        ELSE <<>>

\* re.sub(r'\(.+?\)', '', s, count=1): the first group only. C21 fails on it.
RECURSIVE SubOptional_first_only(_)
SubOptional_first_only(s) ==
    IF s = <<>> THEN <<>>
    ELSE IF Head(s) = "(" /\ \E j \in 3..Len(s) : s[j] = ")"
         THEN Drop(s, CHOOSE j \in 3..Len(s) :
                  s[j] = ")" /\ \A k \in 3..(j - 1) : s[k] # ")")
         ELSE <<Head(s)>> \o SubOptional_first_only(Tail(s))

\* re.sub(r'\(.+?\)', '', s): every "(", one or more characters, the nearest ")".
RECURSIVE SubOptional(_)
SubOptional(s) ==
    IF s = <<>> THEN <<>>
    ELSE IF Head(s) = "(" /\ \E j \in 3..Len(s) : s[j] = ")"
         THEN SubOptional(Drop(s, CHOOSE j \in 3..Len(s) :
                  s[j] = ")" /\ \A k \in 3..(j - 1) : s[k] # ")"))
         ELSE <<Head(s)>> \o SubOptional(Tail(s))

optional_text_rule(ans) ==
    LET candidate == SubOptional(ans)
    IN  IF candidate # ans THEN <<candidate>> ELSE <<>>

parens_rule(ans) ==
    IF Contains(ans, <<"(">>) /\ Contains(ans, <<")">>)
    THEN <<replace(replace(ans, <<"(">>, <<>>), <<")">>, <<>>)>>
    ELSE <<>>

sir_rule(ans) ==
    IF Contains(lower(ans), <<"s","i","r">>)
    THEN <<replace(lower(ans), <<"s","i","r">>, <<>>)>>
    ELSE <<>>

unicode_rule(ans) ==
    LET unicode_ans == unidecode(ans)
    IN  IF ans # unicode_ans THEN <<unicode_ans>> ELSE <<>>

\* The nouns WordNet knows, for wordnet.morphy.
Lemmas == { <<"c","a","t">> }

\* wordnet.morphy(form): the form itself when WordNet has it, the form without
\* its plural ending when WordNet has that, None otherwise.
morphy(form) ==
    IF form \in Lemmas THEN form
    ELSE IF /\ Len(form) > 1
            /\ form[Len(form)] = "s"
            /\ SubSeq(form, 1, Len(form) - 1) \in Lemmas
         THEN SubSeq(form, 1, Len(form) - 1)
         ELSE None

\* The list of create_expansion_rules, by name.
create_expansion_rules ==
    <<"or", "the", "prompt", "apostraphe", "parens", "unicode", "sir",
      "answer", "optional-text">>

\* rule_func(raw_ans) for the expansion rule of that name.
ApplyExpansionRule(name, ans) ==
    CASE name = "or" -> or_rule(ans)
      [] name = "the" -> the_rule(ans)
      [] name = "prompt" -> prompt_rule(ans)
      [] name = "apostraphe" -> apostraphe_rule(ans)
      [] name = "parens" -> parens_rule(ans)
      [] name = "unicode" -> unicode_rule(ans)
      [] name = "sir" -> sir_rule(ans)
      [] name = "answer" -> answer_rule(ans)
      [] name = "optional-text" -> optional_text_rule(ans)
      [] name = "morphy" -> <<morphy(ans)>>

\* ----------------------------------------------------------- match rules

remove_braces(text) == RemoveChars(text, {"{", "}"})

remove_quotes(text) == RemoveChars(text, {"\"", ldquo, rdquo})

remove_parens(text) == RemoveChars(text, {"(", ")"})

plural_rule(ans) ==
    LET singular == morphy(ans)
    IN  IF singular # None /\ singular # ans THEN singular ELSE ans

\* The list of create_match_rules, by name.
create_match_rules ==
    <<"exact match", "braces", "quotes", "parens", "braces+quotes",
      "braces+plural", "quotes+braces+plural">>

\* rule_func(raw_ans) for the match rule of that name.
ApplyMatchRule(name, x) ==
    CASE name = "exact match" -> x
      [] name = "braces" -> remove_braces(x)
      [] name = "quotes" -> remove_quotes(x)
      [] name = "parens" -> remove_parens(x)
      [] name = "braces+quotes" -> remove_quotes(remove_braces(x))
      [] name = "braces+plural" -> plural_rule(remove_braces(x))
      [] name = "quotes+braces+plural" ->
            plural_rule(remove_quotes(remove_braces(x)))
      [] name = "morphy" -> morphy(x)

\* Rule lists of a caller of mapping_rules_to_answer_map with a rule that
\* cannot handle every input: ('morphy', lambda ans: (wordnet.morphy(ans),))
\* as second expansion rule, ('morphy', wordnet.morphy) as second match rule.
expansion_rules_with_morphy ==
    <<"or", "morphy">> \o SubSeq(create_expansion_rules, 2,
                                Len(create_expansion_rules))

match_rules_with_morphy ==
    <<"exact match", "morphy">> \o SubSeq(create_match_rules, 2,
                                         Len(create_match_rules))

\* ---------------------------------------------------------------- inputs

MaxTitles == 2
MaxRedirects == 1

Cat == <<"C","a","t">>
CAT == <<"C","A","T">>
Cats == <<"C","a","t","s">>
The_Cat == <<"T","h","e","_","C","a","t">>
Cat_acute == <<"C",a_acute,"t">>

\* Titles of the pickled title set.
TitleUniverse == {Cat, CAT, Cats, The_Cat, Cat_acute}

\* Rows <<source, target>> of the redirect csv.
RowUniverse == { <<<<"c","a","t">>, Cats>>, <<Cat_acute, The_Cat>> }

\* Answers of the questions.
AnswerUniverse == { <<"C","a","t">>, <<"c","a","t","s">> }

SetsUpTo(U, n) == {S \in SUBSET U : Cardinality(S) <= n}

\* The sequences of at most n different members of U.
SeqsUpTo(U, n) ==
    {s \in UNION {[1..k -> U] : k \in 0..n} :
        \A i, j \in DOMAIN s : i # j => s[i] # s[j]}

\* ----------------------------------------------------------------- dicts
\* A dict whose order matters is the sequence of its <<key, value>> items in
\* insertion order; a dict that is only looked up is a function.

\* The sequences in which a set may iterate.
Orders(S) ==
    {o \in [1..Cardinality(S) -> S] : \A i, j \in DOMAIN o : i # j => o[i] # o[j]}

\* dict[key] = value on an ordered dict.
DictSet(items, key, value) ==
    IF \E i \in 1..Len(items) : items[i][1] = key
    THEN [i \in 1..Len(items) |->
            IF items[i][1] = key THEN <<key, value>> ELSE items[i]]
    ELSE Append(items, <<key, value>>)

\* The key under which a lookup of that kind stores a text.
KeyOf(kind, text) ==
    CASE kind = "exact" -> text
      [] kind = "unicode" -> unidecode(text)
      [] kind = "lower" -> lower(text)
      [] kind = "lower_unicode" -> unidecode(lower(text))

\* {key(text): page for text, page in items}: a later item overwrites.
KeyFold(items, kind) ==
    [k \in {KeyOf(kind, items[i][1]) : i \in 1..Len(items)} |->
        LET I == {i \in 1..Len(items) : KeyOf(kind, items[i][1]) = k}
        IN  items[CHOOSE i \in I : \A j \in I : j <= i][2]]

\* The items <<t, t>> for t in titles, the set iterating in that order.
TitleItems(order) == [i \in 1..Len(order) |-> <<order[i], order[i]>>]

\* ------------------------------------------------------------------ state

VARIABLES
    pc,                     \* where the program is
    wiki_titles,            \* the title set
    redirect_csv,           \* the rows of the redirect csv
    wiki_redirects_source,  \* the redirect dict passed to the mapping
    n_logged,               \* the counts read_wiki_redirects has logged
    heap,                   \* the set objects: the caller's and the clone
    unmapped_answers,       \* the object the local name unmapped_answers names
    exact_titles, unicode_titles, lower_titles, lower_unicode_titles,
    exact_wiki_redirects, unicode_wiki_redirects, lower_wiki_redirects,
    lower_unicode_wiki_redirects,
    expansion_rules,        \* the names of the expansion rules passed
    match_rules,            \* the names of the match rules passed
    answer_map,
    expansion_answer_map,   \* answer -> set of candidates
    items_order,            \* the order of the items of expansion_answer_map
    iter_order,             \* answer -> the order in which its set iterates
    expansion_i,            \* index of the expansion rule to apply next
    match_i,                \* index of the match rule of the current pass
    item_i,                 \* index in items_order of the item being visited
    cand_i,                 \* index in its order of the next candidate
    last,                   \* the lookup of the latest candidate
    first_hit,              \* first match of the visited item in this pass
    pass_end_map,           \* answer_map at the end of the latest pass
    run,                    \* "first" or "second" run on the same inputs
    first_result,           \* what the first run returned
    questions,              \* the questions visited, each with its page
    annotations,            \* what maybe_assign returned for each of them
    rule_name,              \* the expansion rule called on its own
    rule_arg,               \* the answer it is called on
    rule_returned,          \* what it returned
    match_report,
    train_unmatched_questions,
    test_unmatched_questions

lookups ==
    <<exact_titles, unicode_titles, lower_titles, lower_unicode_titles,
      exact_wiki_redirects, unicode_wiki_redirects, lower_wiki_redirects,
      lower_unicode_wiki_redirects>>

inputs == <<wiki_titles, redirect_csv, expansion_rules, match_rules>>

redirects == <<wiki_redirects_source, n_logged>>

called == <<rule_name, rule_arg, rule_returned>>

candidates == <<expansion_answer_map, items_order, iter_order>>

loop == <<expansion_i, match_i, item_i, cand_i>>

ghosts == <<last, first_hit, pass_end_map>>

reconciled ==
    <<questions, annotations, match_report, train_unmatched_questions,
      test_unmatched_questions>>

vars ==
    <<pc, inputs, redirects, heap, unmapped_answers, lookups,
      answer_map, candidates, loop, ghosts, run, first_result, reconciled,
      called>>

EmptyMap == [k \in {} |-> None]

NoLookup ==
    [original_ans |-> None, raw_ans |-> None, rule_ans |-> None,
     tier |-> 0, m |-> None]

\* The caller's set of answers.
raw_unmapped_answers == heap["caller"]

\* The titles, the csv and the answers of a call.
CallInputs ==
    /\ pc = "start"
    /\ wiki_titles \in SetsUpTo(TitleUniverse, MaxTitles)
    /\ redirect_csv \in SeqsUpTo(RowUniverse, MaxRedirects)
    /\ heap \in [{"caller"} -> SUBSET AnswerUniverse]
    /\ unmapped_answers = "caller"

\* Nothing has been read, built or mapped yet.
Fresh ==
    /\ wiki_redirects_source = <<>> /\ n_logged = <<>>
    /\ exact_titles = EmptyMap /\ unicode_titles = EmptyMap
    /\ lower_titles = EmptyMap /\ lower_unicode_titles = EmptyMap
    /\ exact_wiki_redirects = EmptyMap /\ unicode_wiki_redirects = EmptyMap
    /\ lower_wiki_redirects = EmptyMap
    /\ lower_unicode_wiki_redirects = EmptyMap
    /\ answer_map = EmptyMap
    /\ expansion_answer_map = EmptyMap
    /\ items_order = <<>> /\ iter_order = EmptyMap
    /\ expansion_i = 1 /\ match_i = 1 /\ item_i = 1 /\ cand_i = 1
    /\ last = NoLookup /\ first_hit = None /\ pass_end_map = EmptyMap
    /\ run = "first" /\ first_result = None
    /\ questions = <<>> /\ annotations = <<>> /\ match_report = EmptyMap
    /\ train_unmatched_questions = <<>> /\ test_unmatched_questions = <<>>
    /\ rule_name = None /\ rule_arg = None /\ rule_returned = None

\* A call with the rule lists of create_expansion_rules, create_match_rules.
Init ==
    /\ CallInputs
    /\ expansion_rules = create_expansion_rules
    /\ match_rules = create_match_rules
    /\ Fresh

\* --------------------------------------------------------------- reading

\* The loop without its test of the target: C16 fails on it.
RECURSIVE ReadRows_no_test(_, _, _, _)
ReadRows_no_test(titles, rows, redirect_lookup, n) ==
    IF rows = <<>> THEN [redirect_lookup |-> redirect_lookup, n |-> n]
    ELSE ReadRows_no_test(titles, Tail(rows),
            DictSet(redirect_lookup, Head(rows)[1], Head(rows)[2]), n)

\* The loop of read_wiki_redirects over the rows of the csv: the dict built
\* and the number n of rows whose target is no title.
RECURSIVE ReadRows(_, _, _, _)
ReadRows(titles, rows, redirect_lookup, n) ==
    IF rows = <<>> THEN [redirect_lookup |-> redirect_lookup, n |-> n]
    ELSE LET source == Head(rows)[1]
             target == Head(rows)[2]
         IN  IF target \in titles
             THEN ReadRows(titles, Tail(rows),
                           DictSet(redirect_lookup, source, target), n)
             ELSE ReadRows(titles, Tail(rows), redirect_lookup, n + 1)

read_wiki_redirects(titles, rows) ==
    ReadRows(titles, rows, <<>>, 0).redirect_lookup

\* A redirect dict with every row of the csv, as a caller other than
\* create_answer_map may pass.
RECURSIVE DictOfRows(_, _)
DictOfRows(rows, items) ==
    IF rows = <<>> THEN items
    ELSE DictOfRows(Tail(rows), DictSet(items, Head(rows)[1], Head(rows)[2]))

\* ---------------------------------------------------------------- lookups

\* try_match returning the text that was found rather than the page stored
\* under it: C5 fails on it.
try_match_returns_text(ans_text, title_map) ==
    IF ans_text \in DOMAIN title_map THEN ans_text
    ELSE IF replace(ans_text, <<" ">>, <<"_">>) \in DOMAIN title_map
         THEN replace(ans_text, <<" ">>, <<"_">>)
         ELSE None

Get(title_map, text) ==
    IF text \in DOMAIN title_map THEN title_map[text] ELSE None

try_match(ans_text, title_map) ==
    IF ans_text \in DOMAIN title_map THEN title_map[ans_text]
    ELSE Get(title_map, replace(ans_text, <<" ">>, <<"_">>))

\* What a statement that raised leaves in place of its value.
Raised == <<"Raised">>

\* None formatted as the empty string, as rule_func(raw_ans) or '' would:
\* C17 fails on it.
FormatCandidate_none_as_empty(name, raw_ans) ==
    IF ApplyMatchRule(name, raw_ans) = None THEN <<>>
    ELSE strip(CollapseSpaces(strip(ApplyMatchRule(name, raw_ans))))

\* rule_ans of the mapping loop for a candidate under a match rule; the
\* call of strip on None raises.
FormatCandidate(name, raw_ans) ==
    IF ApplyMatchRule(name, raw_ans) = None THEN Raised
    ELSE strip(CollapseSpaces(strip(ApplyMatchRule(name, raw_ans))))

\* The eight lookups of the loop body, numbered as written there.
TierTable(k) ==
    CASE k = 1 -> exact_titles
      [] k = 2 -> exact_wiki_redirects
      [] k = 3 -> unicode_titles
      [] k = 4 -> unicode_wiki_redirects
      [] k = 5 -> lower_titles
      [] k = 6 -> lower_wiki_redirects
      [] k = 7 -> lower_unicode_titles
      [] k = 8 -> lower_unicode_wiki_redirects

\* Every lookup given rule_ans, none lower_ans: C8 fails on it.
TierMatch_never_lower(k, rule_ans, lower_ans) ==
    try_match(rule_ans, TierTable(k))

\* m of the k-th lookup: the first four take rule_ans, the others lower_ans.
TierMatch(k, rule_ans, lower_ans) ==
    try_match(IF k <= 4 THEN rule_ans ELSE lower_ans, TierTable(k))

\* The lower-cased lookups tried before the others: C3 fails on it.
TierOrder_lower_first == <<5, 6, 7, 8, 1, 2, 3, 4>>

\* The order in which the loop body tries the lookups.
TierOrder == <<1, 2, 3, 4, 5, 6, 7, 8>>

\* The lookups of the loop body for rule_ans: the lookup after which it
\* continues (0 when none matches) and its m.
RECURSIVE LookupFrom(_, _, _)
LookupFrom(i, rule_ans, lower_ans) ==
    IF i > Len(TierOrder) THEN [tier |-> 0, m |-> None]
    ELSE IF TierMatch(TierOrder[i], rule_ans, lower_ans) = None
         THEN LookupFrom(i + 1, rule_ans, lower_ans)
         ELSE [tier |-> TierOrder[i],
               m |-> TierMatch(TierOrder[i], rule_ans, lower_ans)]

Lookup(rule_ans) ==
    CHOOSE hit \in {LookupFrom(1, rule_ans, lower_ans) :
                        lower_ans \in {lower(rule_ans)}} : TRUE

\* ---------------------------------------------------------------- mapping

\* No copy, the local name stays bound to the caller's set: C9 fails on it.
CloneSet_alias(ref) == ref

\* set(unmapped_answers): the object the local name is bound to afterwards.
CloneSet(ref) == "local"

\* unmapped_answers ^= set(answer_map.keys()): C6 fails on it.
RemoveMapped_symmetric(unmapped, amap) ==
    (unmapped \ DOMAIN amap) \cup (DOMAIN amap \ unmapped)

\* The set left as it is: C7 fails on it.
RemoveMapped_nothing(unmapped, amap) == unmapped

\* unmapped_answers -= set(answer_map.keys())
RemoveMapped(unmapped, amap) == unmapped \ DOMAIN amap

\* answer_map[original_ans] = m when m is not None.
AssignMatch(amap, ans, m) ==
    IF m = None THEN amap
    ELSE [a \in DOMAIN amap \cup {ans} |-> IF a = ans THEN m ELSE amap[a]]

\* The candidates one expansion rule adds for an answer.
Expansions(name, raw_ans) ==
    LET out == ApplyExpansionRule(name, raw_ans)
    IN  {strip(out[i]) : i \in 1..Len(out)}

\* exp_ans.strip() raises: the rule gave None for an expansion.
ExpansionRaises(name, raw_ans) ==
    LET out == ApplyExpansionRule(name, raw_ans)
    IN  \E i \in 1..Len(out) : out[i] = None

\* The rule applied to every candidate the answer has so far: C19 fails on it.
Expanded_chained(cands, name, raw_ans) ==
    cands \cup UNION {Expansions(name, c) : c \in cands}

\* The candidates of the answer replaced by the expansions: C20 fails on it.
Expanded_replaces(cands, name, raw_ans) == Expansions(name, raw_ans)

\* expansion_answer_map[raw_ans] after the rule's expansions of raw_ans were
\* added to it.
Expanded(cands, name, raw_ans) == cands \cup Expansions(name, raw_ans)

\* create_answer_map: the redirect dict is read with read_wiki_redirects.
create_answer_map ==
    /\ pc = "start"
    /\ wiki_redirects_source' = read_wiki_redirects(wiki_titles, redirect_csv)
    /\ n_logged' = <<ReadRows(wiki_titles, redirect_csv, <<>>, 0).n>>
    /\ pc' = "lookups"
    /\ UNCHANGED <<inputs, heap, unmapped_answers, lookups, answer_map,
                   candidates, loop, ghosts, run, first_result, reconciled,
                   called>>

\* A call of mapping_rules_to_answer_map with a redirect dict of the caller's.
CallMapping ==
    /\ pc = "start"
    /\ wiki_redirects_source' = DictOfRows(redirect_csv, <<>>)
    /\ pc' = "lookups"
    /\ UNCHANGED n_logged
    /\ UNCHANGED <<inputs, heap, unmapped_answers, lookups, answer_map,
                   candidates, loop, ghosts, run, first_result, reconciled,
                   called>>

\* Lines 28-36: the four title dicts, the set wiki_titles iterating in one
\* order for all of them, and the four redirect dicts.
BuildLookups ==
    /\ pc = "lookups"
    /\ \E order \in Orders(wiki_titles) :
        \E titles \in {TitleItems(order)} :
            /\ exact_titles' = KeyFold(titles, "exact")
            /\ unicode_titles' = KeyFold(titles, "unicode")
            /\ lower_titles' = KeyFold(titles, "lower")
            /\ lower_unicode_titles' = KeyFold(titles, "lower_unicode")
    /\ exact_wiki_redirects' = KeyFold(wiki_redirects_source, "exact")
    /\ unicode_wiki_redirects' = KeyFold(wiki_redirects_source, "unicode")
    /\ lower_wiki_redirects' = KeyFold(wiki_redirects_source, "lower")
    /\ lower_unicode_wiki_redirects' =
            KeyFold(wiki_redirects_source, "lower_unicode")
    /\ pc' = "clone"
    /\ UNCHANGED <<inputs, redirects, heap, unmapped_answers,
                   answer_map, candidates, loop, ghosts, run, first_result, reconciled,
                   called>>

\* Lines 38-48: the empty answer map, the clone, the seeded candidate sets;
\* the items of expansion_answer_map are inserted in the clone's order.
CloneAndSeed ==
    /\ pc = "clone"
    /\ answer_map' = EmptyMap
    /\ unmapped_answers' = CloneSet(unmapped_answers)
    /\ heap' = [o \in {"caller", "local"} |->
                    IF o = "local" THEN heap[unmapped_answers] ELSE heap[o]]
    /\ expansion_answer_map' = [ans \in heap[unmapped_answers] |-> {ans}]
    /\ items_order' \in Orders(heap[unmapped_answers])
    /\ iter_order' = EmptyMap
    /\ expansion_i' = 1
    /\ pc' = "expand"
    /\ UNCHANGED <<inputs, redirects, lookups, match_i, item_i,
                   cand_i, ghosts, run, first_result, reconciled,
                   called>>

\* Lines 50-54: one expansion rule applied to every unmapped answer.
ExpandRule ==
    /\ pc = "expand"
    /\ expansion_i <= Len(expansion_rules)
    /\ IF \E raw_ans \in heap[unmapped_answers] :
                ExpansionRaises(expansion_rules[expansion_i], raw_ans)
       THEN /\ pc' = "raised"
            /\ UNCHANGED <<expansion_answer_map, expansion_i>>
       ELSE /\ expansion_answer_map' =
                [ans \in DOMAIN expansion_answer_map |->
                    IF ans \in heap[unmapped_answers]
                    THEN Expanded(expansion_answer_map[ans],
                                  expansion_rules[expansion_i], ans)
                    ELSE expansion_answer_map[ans]]
            /\ expansion_i' = expansion_i + 1
            /\ UNCHANGED pc
    /\ UNCHANGED <<inputs, redirects, heap, unmapped_answers,
                   lookups, answer_map, items_order, iter_order, match_i,
                   item_i, cand_i, ghosts, run, first_result, reconciled,
                   called>>

\* The expansion rules are exhausted and the candidate sets complete: each
\* set iterates in one order from here on.
ExpandDone ==
    /\ pc = "expand"
    /\ expansion_i > Len(expansion_rules)
    /\ iter_order' \in
        {o \in [DOMAIN expansion_answer_map ->
                    UNION {Orders(expansion_answer_map[a]) :
                                a \in DOMAIN expansion_answer_map}] :
            \A a \in DOMAIN o : o[a] \in Orders(expansion_answer_map[a])}
    /\ match_i' = 1
    /\ item_i' = 1
    /\ cand_i' = 1
    /\ pc' = "match"
    /\ UNCHANGED <<inputs, redirects, heap, unmapped_answers,
                   lookups, answer_map, expansion_answer_map, items_order,
                   expansion_i, ghosts, run, first_result, reconciled,
                   called>>

\* The item of expansion_answer_map being visited, None past the last.
original_ans ==
    IF item_i <= Len(items_order) THEN items_order[item_i] ELSE None

\* Line 60: the items of expansion_answer_map are exhausted.
PassDone == item_i > Len(items_order)

\* Lines 60-107: the next expansion of the visited item, formatted and looked
\* up; after the last expansion of an item the next item is visited.
MatchCandidate ==
    /\ pc = "match"
    /\ match_i <= Len(match_rules)
    /\ ~PassDone
    /\ \E raw_ans \in {iter_order[original_ans][cand_i]} :
       \E rule_ans \in {FormatCandidate(match_rules[match_i], raw_ans)} :
       IF rule_ans = Raised
       THEN /\ pc' = "raised"
            /\ UNCHANGED <<answer_map, last, first_hit, cand_i, item_i>>
       ELSE \E hit \in {Lookup(rule_ans)} :
           /\ answer_map' = AssignMatch(answer_map, original_ans, hit.m)
           /\ last' = [original_ans |-> original_ans, raw_ans |-> raw_ans,
                       rule_ans |-> rule_ans, tier |-> hit.tier, m |-> hit.m]
           /\ first_hit' = IF cand_i = 1 \/ first_hit = None THEN hit.m
                           ELSE first_hit
           /\ IF cand_i < Len(iter_order[original_ans])
              THEN cand_i' = cand_i + 1 /\ item_i' = item_i
              ELSE cand_i' = 1 /\ item_i' = item_i + 1
           /\ UNCHANGED pc
    /\ UNCHANGED <<inputs, redirects, heap, unmapped_answers,
                   lookups, candidates, expansion_i, match_i,
                   pass_end_map, run, first_result, reconciled,
                   called>>

\* The for loop of line 56 taking the same rule again: C23 fails on it.
NextPass_same_rule(i) == i

\* The for loop of line 56 goes on to the next match rule of the list.
NextPass(i) == i + 1

\* Lines 109-112: the pass is over, the mapped answers leave the set.
EndPass ==
    /\ pc = "match"
    /\ match_i <= Len(match_rules)
    /\ PassDone
    /\ heap' = [heap EXCEPT ![unmapped_answers] =
                    RemoveMapped(heap[unmapped_answers], answer_map)]
    /\ pass_end_map' = answer_map
    /\ match_i' = NextPass(match_i)
    /\ item_i' = 1
    /\ cand_i' = 1
    /\ first_hit' = None
    /\ last' = NoLookup
    /\ UNCHANGED <<pc, inputs, redirects, unmapped_answers, lookups,
                   answer_map, candidates, expansion_i, run, first_result,
                   reconciled,
                   called>>

\* Lines 114-117: return answer_map, unmapped_answers.
Return ==
    /\ pc = "match"
    /\ match_i > Len(match_rules)
    /\ pc' = "done"
    /\ UNCHANGED <<inputs, redirects, heap, unmapped_answers,
                   lookups, answer_map, candidates, loop, ghosts, run,
                   first_result, reconciled,
                   called>>

\* What the call returned.
Result == <<answer_map, heap[unmapped_answers]>>

Next ==
    \/ create_answer_map
    \/ CallMapping
    \/ BuildLookups
    \/ CloneAndSeed
    \/ ExpandRule
    \/ ExpandDone
    \/ MatchCandidate
    \/ EndPass
    \/ Return

Spec == Init /\ [][Next]_vars

\* Calls on no title, on one title and on two titles, with and without a
\* redirect, on every set of answers.
InitLive ==
    /\ pc = "start"
    /\ wiki_titles \in {{}, {Cat}, {Cats, The_Cat}}
    /\ redirect_csv \in {<<>>, << <<<<"c","a","t">>, Cats>> >>}
    /\ heap \in [{"caller"} -> SUBSET AnswerUniverse]
    /\ unmapped_answers = "caller"
    /\ expansion_rules = create_expansion_rules
    /\ match_rules = create_match_rules
    /\ Fresh

\* The statements of a call are executed one after the other until it
\* returns or raises: a step that can be taken is taken.
SpecLive == InitLive /\ [][Next]_vars /\ WF_vars(Next)

\* The program runs again on the same inputs: the sets hash, and so iterate,
\* as the new process happens to make them.
RunAgain ==
    /\ pc = "done"
    /\ run = "first"
    /\ run' = "second"
    /\ first_result' = Result
    /\ unmapped_answers' = "caller"
    /\ heap' = [o \in {"caller"} |-> heap[o]]
    /\ pass_end_map' = EmptyMap
    /\ pc' = "lookups"
    /\ UNCHANGED <<inputs, redirects, lookups, answer_map,
                   candidates, loop, last, first_hit, reconciled,
                   called>>

NextTwice == Next \/ RunAgain

SpecTwice == Init /\ [][NextTwice]_vars

\* --------------------------------------------------------- reconciliation

MaxQuestions == 2

GUESSER_TRAIN_FOLD == "guesstrain"
BUZZER_TRAIN_FOLD == "buzztrain"

\* The folds of the questions: the two training folds and one other.
Folds == {GUESSER_TRAIN_FOLD, BUZZER_TRAIN_FOLD, "guessdev"}

QantaIds == {1, 2}

\* The answers of the questions given to unmapped_to_mapped_questions.
QuestionAnswers == { <<"C","a","t">>, <<"c","a","t","s">> }

\* The answer maps given to it.
AnswerMaps == {EmptyMap, [a \in { <<"C","a","t">> } |-> Cat]}

\* What page_assigner.maybe_assign may return: a page or None, an error or None.
AnnotatedPages == {None, Cat, Cats}

AnnotatedErrors == {None, <<"e","r","r">>}

\* The pairs page_assigner.maybe_assign returns: a page it found and no error,
\* or no page and the error code of the lookup that failed, if any.
maybe_assign ==
    { <<annotated_page, None>> : annotated_page \in AnnotatedPages }
        \cup { <<None, annotated_error>> : annotated_error \in AnnotatedErrors }

\* The two results of the last branch exchanged: C10 fails on it.
MatchResult_exchanged(annotated_page, automatic_page) ==
    IF annotated_page = None /\ automatic_page = None THEN "none"
    ELSE IF annotated_page # None /\ automatic_page = None THEN "annotated"
    ELSE IF annotated_page = None /\ automatic_page # None THEN "automatic"
    ELSE IF annotated_page = automatic_page THEN "disagree"
    ELSE "annotated+automatic"

\* 'result' of the branch the if/elif/else chain of the loop body takes.
MatchResult(annotated_page, automatic_page) ==
    IF annotated_page = None /\ automatic_page = None THEN "none"
    ELSE IF annotated_page # None /\ automatic_page = None THEN "annotated"
    ELSE IF annotated_page = None /\ automatic_page # None THEN "automatic"
    ELSE IF annotated_page = automatic_page THEN "annotated+automatic"
    ELSE "disagree"

\* The last branch assigning the automatic page: C11 fails on it.
AssignedPage_automatic_on_conflict(page, annotated_page, automatic_page) ==
    IF annotated_page = None /\ automatic_page = None THEN page
    ELSE IF annotated_page # None /\ automatic_page = None THEN annotated_page
    ELSE automatic_page

\* The 'automatic' branch assigning no page: C14 fails on it.
AssignedPage_no_fallback(page, annotated_page, automatic_page) ==
    IF annotated_page = None THEN page ELSE annotated_page

\* q['page'] after the branch taken: the 'none' branch leaves it as it was.
AssignedPage(page, annotated_page, automatic_page) ==
    IF annotated_page = None /\ automatic_page = None THEN page
    ELSE IF annotated_page # None /\ automatic_page = None THEN annotated_page
    ELSE IF annotated_page = None /\ automatic_page # None THEN automatic_page
    ELSE IF annotated_page = automatic_page THEN automatic_page
    ELSE annotated_page

\* The test without its second disjunct: C13 fails on it.
IsTrainFold_guesser_only(fold) == fold = GUESSER_TRAIN_FOLD

\* The fold test of the 'none' branch: true appends to the train list.
IsTrainFold(fold) == fold = GUESSER_TRAIN_FOLD \/ fold = BUZZER_TRAIN_FOLD

\* The record without the error maybe_assign returned: C15 fails on it.
AuditRecord_no_error(result, annotated_page, annotated_error, automatic_page) ==
    [result |-> result,
     annotated_error |-> None,
     automatic_error |-> None,
     annotated_page |-> annotated_page,
     automatic_page |-> automatic_page]

\* The dict literal every branch stores in match_report.
AuditRecord(result, annotated_page, annotated_error, automatic_page) ==
    [result |-> result,
     annotated_error |-> annotated_error,
     automatic_error |-> None,
     annotated_page |-> annotated_page,
     automatic_page |-> automatic_page]

\* match_report rebound to a dict of the one record: C12 fails on it.
PutRecord_replaces(report, qanta_id, record) ==
    [k \in {qanta_id} |-> record]

\* match_report[qanta_id] = record
PutRecord(report, qanta_id, record) ==
    [k \in DOMAIN report \cup {qanta_id} |->
        IF k = qanta_id THEN record ELSE report[k]]

InitReconcile ==
    /\ pc = "reconcile"
    /\ answer_map \in AnswerMaps
    /\ wiki_titles = {} /\ redirect_csv = <<>>
    /\ heap = [o \in {"caller"} |-> {}]
    /\ unmapped_answers = "caller"
    /\ wiki_redirects_source = <<>> /\ n_logged = <<>>
    /\ exact_titles = EmptyMap /\ unicode_titles = EmptyMap
    /\ lower_titles = EmptyMap /\ lower_unicode_titles = EmptyMap
    /\ exact_wiki_redirects = EmptyMap /\ unicode_wiki_redirects = EmptyMap
    /\ lower_wiki_redirects = EmptyMap
    /\ lower_unicode_wiki_redirects = EmptyMap
    /\ expansion_rules = create_expansion_rules
    /\ match_rules = create_match_rules
    /\ expansion_answer_map = EmptyMap
    /\ items_order = <<>> /\ iter_order = EmptyMap
    /\ expansion_i = 1 /\ match_i = 1 /\ item_i = 1 /\ cand_i = 1
    /\ last = NoLookup /\ first_hit = None /\ pass_end_map = EmptyMap
    /\ run = "first" /\ first_result = None
    /\ questions = <<>> /\ annotations = <<>> /\ match_report = EmptyMap
    /\ train_unmatched_questions = <<>> /\ test_unmatched_questions = <<>>
    /\ rule_name = None /\ rule_arg = None /\ rule_returned = None

\* Lines 317-375: the loop body for the next question q of the list.
ReconcileQuestion ==
    /\ pc = "reconcile"
    /\ Len(questions) < MaxQuestions
    /\ \E answer \in QuestionAnswers, qanta_id \in QantaIds, fold \in Folds,
          returned \in maybe_assign :
        LET annotated_page == returned[1]
            annotated_error == returned[2]
            automatic_page ==
                IF answer \in DOMAIN answer_map THEN answer_map[answer] ELSE None
            q == [qanta_id |-> qanta_id, answer |-> answer, fold |-> fold,
                  page |-> AssignedPage(None, annotated_page, automatic_page)]
            result == MatchResult(annotated_page, automatic_page)
        IN  /\ match_report' = PutRecord(match_report, qanta_id,
                    AuditRecord(result, annotated_page, annotated_error,
                                automatic_page))
            /\ questions' = Append(questions, q)
            /\ annotations' = Append(annotations, returned)
            /\ train_unmatched_questions' =
                    IF result = "none" /\ IsTrainFold(fold)
                    THEN Append(train_unmatched_questions, q)
                    ELSE train_unmatched_questions
            /\ test_unmatched_questions' =
                    IF result = "none" /\ ~IsTrainFold(fold)
                    THEN Append(test_unmatched_questions, q)
                    ELSE test_unmatched_questions
    /\ UNCHANGED <<pc, inputs, redirects, heap, unmapped_answers,
                   lookups, answer_map, candidates, loop, ghosts, run,
                   first_result,
                   called>>

\* Lines 377-381: the list is exhausted, the three outputs are returned.
ReturnReport ==
    /\ pc = "reconcile"
    /\ pc' = "reported"
    /\ UNCHANGED <<inputs, redirects, heap, unmapped_answers,
                   lookups, answer_map, candidates, loop, ghosts, run,
                   first_result, reconciled,
                   called>>

NextReconcile == ReconcileQuestion \/ ReturnReport

SpecReconcile == InitReconcile /\ [][NextReconcile]_vars

\* ------------------------------------------------------- reading the csv

MaxRows == 3

\* Rows <<source, target>> of a csv in which a source has two targets.
RedirectRows ==
    { <<<<"c","a","t">>, Cats>>, <<<<"c","a","t">>, Cat>>,
      <<Cat_acute, The_Cat>> }

\* The csv files of at most n rows of U, a row possibly repeated.
CsvUpTo(U, n) == UNION {[1..k -> U] : k \in 0..n}

InitRead ==
    /\ pc = "csv"
    /\ wiki_titles \in SetsUpTo(TitleUniverse, MaxTitles)
    /\ redirect_csv \in CsvUpTo(RedirectRows, MaxRows)
    /\ heap = [o \in {"caller"} |-> {}]
    /\ unmapped_answers = "caller"
    /\ wiki_redirects_source = <<>> /\ n_logged = <<>>
    /\ exact_titles = EmptyMap /\ unicode_titles = EmptyMap
    /\ lower_titles = EmptyMap /\ lower_unicode_titles = EmptyMap
    /\ exact_wiki_redirects = EmptyMap /\ unicode_wiki_redirects = EmptyMap
    /\ lower_wiki_redirects = EmptyMap
    /\ lower_unicode_wiki_redirects = EmptyMap
    /\ expansion_rules = create_expansion_rules
    /\ match_rules = create_match_rules
    /\ answer_map = EmptyMap
    /\ expansion_answer_map = EmptyMap
    /\ items_order = <<>> /\ iter_order = EmptyMap
    /\ expansion_i = 1 /\ match_i = 1 /\ item_i = 1 /\ cand_i = 1
    /\ last = NoLookup /\ first_hit = None /\ pass_end_map = EmptyMap
    /\ run = "first" /\ first_result = None
    /\ questions = <<>> /\ annotations = <<>> /\ match_report = EmptyMap
    /\ train_unmatched_questions = <<>> /\ test_unmatched_questions = <<>>
    /\ rule_name = None /\ rule_arg = None /\ rule_returned = None

\* Lines 384-396: a call of read_wiki_redirects, the count logged and the
\* dict returned.
CallReadRedirects ==
    /\ pc = "csv"
    /\ \E read \in {ReadRows(wiki_titles, redirect_csv, <<>>, 0)} :
            /\ wiki_redirects_source' = read.redirect_lookup
            /\ n_logged' = <<read.n>>
    /\ pc' = "read"
    /\ UNCHANGED <<inputs, heap, unmapped_answers, lookups, answer_map,
                   candidates, loop, ghosts, run, first_result, reconciled,
                   called>>

NextRead == CallReadRedirects

SpecRead == InitRead /\ [][NextRead]_vars

\* ------------------------------------------------ rules of other callers

\* A call whose expansion rules or whose match rules have the rule that
\* gives None for some inputs.
InitFaulty ==
    /\ CallInputs
    /\ \E rules \in { <<create_expansion_rules, match_rules_with_morphy>>,
                      <<expansion_rules_with_morphy, create_match_rules>> } :
            /\ expansion_rules = rules[1]
            /\ match_rules = rules[2]
    /\ Fresh

SpecFaulty == InitFaulty /\ [][Next]_vars

\* ------------------------------------------- expansion rules reordered

Reversed(rules) == [i \in 1..Len(rules) |-> rules[Len(rules) + 1 - i]]

Rotated(rules) == Tail(rules) \o <<Head(rules)>>

\* What a call returned, with the candidate sets it had built.
ResultAndCandidates ==
    <<answer_map, heap[unmapped_answers], expansion_answer_map>>

\* The same inputs mapped again with the expansion rules in another order:
\* the candidate sets are filled, and so iterate, in another order.
RunPermuted ==
    /\ pc = "done"
    /\ run = "first"
    /\ run' = "second"
    /\ first_result' = ResultAndCandidates
    /\ expansion_rules' \in
            {Reversed(expansion_rules), Rotated(expansion_rules)}
    /\ unmapped_answers' = "caller"
    /\ heap' = [o \in {"caller"} |-> heap[o]]
    /\ pass_end_map' = EmptyMap
    /\ pc' = "lookups"
    /\ UNCHANGED <<wiki_titles, redirect_csv, match_rules, redirects,
                   lookups, answer_map, candidates, loop, last, first_hit,
                   reconciled,
                   called>>

NextPermuted == Next \/ RunPermuted

SpecPermuted == Init /\ [][NextPermuted]_vars

\* ---------------------------------------------------- the expansion phase

The_Cat_acute == <<"T","h","e"," ","C",a_acute,"t">>

A_or_b == <<"a"," ","o","r"," ","b">>

\* Answers on which the expansion rules give expansions of several kinds.
ExpansionAnswers == {The_Cat_acute, Cat, A_or_b}

InitExpand ==
    /\ pc = "start"
    /\ wiki_titles = {}
    /\ redirect_csv = <<>>
    /\ heap \in [{"caller"} -> SUBSET ExpansionAnswers]
    /\ unmapped_answers = "caller"
    /\ expansion_rules = create_expansion_rules
    /\ match_rules = create_match_rules
    /\ Fresh

\* A call up to the end of the loop of lines 50-54.
NextExpand ==
    \/ create_answer_map
    \/ CallMapping
    \/ BuildLookups
    \/ CloneAndSeed
    \/ ExpandRule

SpecExpand == InitExpand /\ [][NextExpand]_vars

\* ------------------------------------------------- one rule on its own

MaxTokens == 3

\* Pieces of answers: the word in two cases, a group, its delimiters, a
\* space and a capital letter.
Tokens ==
    { <<"t","h","e">>, <<"T","h","e">>, <<"(","a",")">>, <<"(">>, <<")">>,
      <<" ">>, <<"B">> }

RECURSIVE Concat(_)
Concat(pieces) ==
    IF pieces = <<>> THEN <<>> ELSE Head(pieces) \o Concat(Tail(pieces))

\* The answers of at most n pieces.
AnswersOf(n) == {Concat(pieces) : pieces \in UNION {[1..k -> Tokens] : k \in 0..n}}

RuleNames == {create_expansion_rules[i] : i \in DOMAIN create_expansion_rules}

InitRule ==
    /\ pc = "rule"
    /\ rule_name \in RuleNames
    /\ rule_arg \in AnswersOf(MaxTokens)
    /\ rule_returned = None
    /\ wiki_titles = {}
    /\ redirect_csv = <<>>
    /\ heap = [o \in {"caller"} |-> {}]
    /\ unmapped_answers = "caller"
    /\ expansion_rules = create_expansion_rules
    /\ match_rules = create_match_rules
    /\ wiki_redirects_source = <<>> /\ n_logged = <<>>
    /\ exact_titles = EmptyMap /\ unicode_titles = EmptyMap
    /\ lower_titles = EmptyMap /\ lower_unicode_titles = EmptyMap
    /\ exact_wiki_redirects = EmptyMap /\ unicode_wiki_redirects = EmptyMap
    /\ lower_wiki_redirects = EmptyMap
    /\ lower_unicode_wiki_redirects = EmptyMap
    /\ answer_map = EmptyMap
    /\ expansion_answer_map = EmptyMap
    /\ items_order = <<>> /\ iter_order = EmptyMap
    /\ expansion_i = 1 /\ match_i = 1 /\ item_i = 1 /\ cand_i = 1
    /\ last = NoLookup /\ first_hit = None /\ pass_end_map = EmptyMap
    /\ run = "first" /\ first_result = None
    /\ questions = <<>> /\ annotations = <<>> /\ match_report = EmptyMap
    /\ train_unmatched_questions = <<>> /\ test_unmatched_questions = <<>>

\* A call rule_func(ans) of one expansion rule.
CallRule ==
    /\ pc = "rule"
    /\ rule_returned' = ApplyExpansionRule(rule_name, rule_arg)
    /\ pc' = "returned"
    /\ UNCHANGED <<rule_name, rule_arg, inputs, redirects, heap,
                   unmapped_answers, lookups, answer_map, candidates, loop,
                   ghosts, run, first_result, reconciled>>

NextRule == CallRule

SpecRule == InitRule /\ [][NextRule]_vars

\* ================================================================= claims

\* Line 109 is next: a pass over expansion_answer_map has visited every item.
PassComplete ==
    pc = "match" /\ match_i <= Len(create_match_rules) /\ PassDone

\* Line 109 has just run, no lookup of the next pass has.
AfterPass == pc = "match" /\ match_i > 1 /\ last = NoLookup

\* text.replace(' ', '_')
Underscored(text) ==
    [i \in 1..Len(text) |-> IF text[i] = " " THEN "_" ELSE text[i]]

\* C1: an answer that has a value in the answer map at the end of a pass has
\* that same value when any later pass has visited every item.
C1_MappingIsFinal ==
    PassComplete =>
        \A a \in DOMAIN pass_end_map :
            a \in DOMAIN answer_map /\ answer_map[a] = pass_end_map[a]

\* C2: within a pass, once a candidate of an answer has hit, the value of the
\* answer is the one that first hit produced, whatever candidates follow.
C2_FirstHitDecides ==
    (pc = "match" /\ last.original_ans # None /\ first_hit # None) =>
        answer_map[last.original_ans] = first_hit

\* The eight lookups in the order C3 gives, each with the text it is given.
ClaimedTiers(rule_ans) ==
    << <<rule_ans, exact_titles>>,
       <<rule_ans, exact_wiki_redirects>>,
       <<rule_ans, unicode_titles>>,
       <<rule_ans, unicode_wiki_redirects>>,
       <<lower(rule_ans), lower_titles>>,
       <<lower(rule_ans), lower_wiki_redirects>>,
       <<lower(rule_ans), lower_unicode_titles>>,
       <<lower(rule_ans), lower_unicode_wiki_redirects>> >>

\* What the k-th of them finds: the literal text, then the text with
\* underscores for spaces, None when neither is a key.
Probe(k, rule_ans) ==
    LET text == ClaimedTiers(rule_ans)[k][1]
        table == ClaimedTiers(rule_ans)[k][2]
    IN  IF text \in DOMAIN table THEN table[text]
        ELSE IF Underscored(text) \in DOMAIN table
             THEN table[Underscored(text)]
             ELSE None

\* C3: the lookup of a formatted candidate takes the first of the eight tiers,
\* in the order exact-title .. lower-Unicode-folded-redirect, that finds the
\* literal text or its underscored form, and nothing when none does; a candidate
\* that is an exact title and a lower-cased redirect gets the exact title.
C3_TierPriority ==
    (pc = "match" /\ last.rule_ans # None) =>
        LET r == last.rule_ans
            hits == {k \in 1..Len(ClaimedTiers(r)) : Probe(k, r) # None}
        IN  /\ hits = {} => last.tier = 0 /\ last.m = None
            /\ \A k \in hits :
                    (\A j \in hits : k <= j) =>
                        /\ last.tier = k
                        /\ last.m = Probe(k, r)
                        /\ answer_map[last.original_ans] = last.m
            /\ ({1, 6} \subseteq hits) => last.m = exact_titles[
                    IF r \in DOMAIN exact_titles THEN r ELSE Underscored(r)]

\* A candidate that is an exact title and a lower-cased redirect to another
\* page has been looked up.
C3_Witness ==
    /\ pc = "match"
    /\ last.rule_ans # None
    /\ last.tier = 1
    /\ Probe(6, last.rule_ans) \notin {None, last.m}

\* C4: the second of two calls over the same inputs returns the answer map and
\* the unresolved set the first returned.
C4_SameResultTwice ==
    (pc = "done" /\ run = "second") => Result = first_result

\* C5 as stated: every value of the answer map is a member of the title set.
C5_ValuesAreTitles ==
    \A a \in DOMAIN answer_map : answer_map[a] \in wiki_titles

\* Every target of the redirect dict passed to the mapping is a title.
TargetsAreTitles ==
    \A i \in 1..Len(wiki_redirects_source) :
        wiki_redirects_source[i][2] \in wiki_titles

\* C5: when every target of the redirect dict passed in is a title, as with
\* the dict create_answer_map passes, every value of the answer map is a
\* member of the title set.
C5_ValuesAreTitlesGivenTargets ==
    TargetsAreTitles => C5_ValuesAreTitles

\* A redirect lookup has supplied the mapping of an answer, its targets titles.
C5_Witness ==
    /\ pc = "match"
    /\ last.tier \in {2, 4, 6, 8}
    /\ TargetsAreTitles
    /\ answer_map[last.original_ans] = last.m
    /\ last.m \in wiki_titles

\* C6: no step of the mapping, so no pass, adds a member to the unresolved
\* set or takes a key from the answer map.
C6_Monotone ==
    [][/\ heap'[unmapped_answers'] \subseteq heap[unmapped_answers]
       /\ DOMAIN answer_map \subseteq DOMAIN answer_map']_vars

\* After the sixth pass the unresolved set has lost a member and kept one.
C6_Witness ==
    /\ AfterPass
    /\ match_i = 7
    /\ heap[unmapped_answers] # {}
    /\ heap[unmapped_answers] # raw_unmapped_answers
    /\ heap[unmapped_answers] \subseteq raw_unmapped_answers

\* C7: after every pass and at return the unresolved set is the initial
\* population minus the keys of the answer map: disjoint from the keys, with
\* them the whole population, and every key is in the population.
C7_Partition ==
    (AfterPass \/ pc = "done") =>
        /\ heap[unmapped_answers] = raw_unmapped_answers \ DOMAIN answer_map
        /\ heap[unmapped_answers] \cap DOMAIN answer_map = {}
        /\ heap[unmapped_answers] \cup DOMAIN answer_map = raw_unmapped_answers
        /\ DOMAIN answer_map \subseteq raw_unmapped_answers

\* The call has returned with one answer mapped and the other unresolved.
C7_Witness ==
    /\ pc = "done"
    /\ Cardinality(DOMAIN answer_map) = 1
    /\ Cardinality(heap[unmapped_answers]) = 1

\* The sources of the redirect dict passed to the mapping.
RedirectSources ==
    {wiki_redirects_source[i][1] : i \in 1..Len(wiki_redirects_source)}

\* rule_ans hits one of the eight lookups: it or its underscored form is a
\* title or a redirect source, as written or Unicode-folded, or its lower-cased
\* form is one lower-cased or lower-cased and Unicode-folded.
HitsLookup(rule_ans) ==
    LET exact == {rule_ans, Underscored(rule_ans)}
        lowered == {lower(rule_ans), Underscored(lower(rule_ans))}
    IN  \E text \in wiki_titles \cup RedirectSources :
            \/ text \in exact
            \/ unidecode(text) \in exact
            \/ lower(text) \in lowered
            \/ unidecode(lower(text)) \in lowered

\* Some candidate of the answer hits under some match rule.
Hits(ans) ==
    \E i \in 1..Len(create_match_rules) :
        \E raw_ans \in expansion_answer_map[ans] :
            HitsLookup(FormatCandidate(create_match_rules[i], raw_ans))

\* C8: an answer is in the returned unresolved set exactly when no candidate
\* of it hits a lookup under any match rule; every other answer of the
\* population is a key of the returned answer map.
C8_UnresolvedIffNoHit ==
    pc = "done" =>
        /\ heap[unmapped_answers] = {a \in raw_unmapped_answers : ~Hits(a)}
        /\ DOMAIN answer_map = {a \in raw_unmapped_answers : Hits(a)}

\* The call has returned an answer without a hit and an answer with one.
C8_Witness ==
    /\ pc = "done"
    /\ \E a \in heap[unmapped_answers] : ~Hits(a)
    /\ \E a \in DOMAIN answer_map : Hits(a)

\* C9: from the call on, no step changes the members of the caller's set, the
\* title set or the redirect dict.
C9_InputsUnchanged ==
    [][pc # "start" =>
          /\ heap'["caller"] = heap["caller"]
          /\ wiki_titles' = wiki_titles
          /\ wiki_redirects_source' = wiki_redirects_source]_vars

\* The call has returned, its clone has lost a member the caller's set has.
C9_Witness ==
    /\ pc = "done"
    /\ unmapped_answers = "local"
    /\ heap["local"] # heap["caller"]

\* C10: the result of every record of the report is the one the decision
\* table gives for the record's annotated and automatic page, one of five.
C10_DecisionTable ==
    \A id \in DOMAIN match_report :
        LET rec == match_report[id]
            annotated == rec.annotated_page # None
            automatic == rec.automatic_page # None
            same == rec.annotated_page = rec.automatic_page
        IN  /\ rec.result \in {"none", "annotated", "automatic",
                               "annotated+automatic", "disagree"}
            /\ rec.result = "none" <=> ~annotated /\ ~automatic
            /\ rec.result = "annotated" <=> annotated /\ ~automatic
            /\ rec.result = "automatic" <=> ~annotated /\ automatic
            /\ rec.result = "annotated+automatic" <=>
                    annotated /\ automatic /\ same
            /\ rec.result = "disagree" <=> annotated /\ automatic /\ ~same

\* The report has a record of agreeing pages and one of disagreeing pages.
C10_Witness ==
    /\ \E id \in DOMAIN match_report :
            match_report[id].result = "annotated+automatic"
    /\ \E id \in DOMAIN match_report : match_report[id].result = "disagree"

\* ----------------------------------------------------- reconciliation claims

\* The pages of the i-th question visited: what maybe_assign returned for it
\* and the value the answer map has for its answer.
AnnotatedPageOf(i) == annotations[i][1]

AnnotatedErrorOf(i) == annotations[i][2]

AutomaticPageOf(i) ==
    IF questions[i].answer \in DOMAIN answer_map
    THEN answer_map[questions[i].answer] ELSE None

Visited == 1..Len(questions)

\* C11: the page of every question visited is its annotated page when there
\* is one, also when the automatic page differs; otherwise its automatic page
\* when there is one; and no page when there is neither.
C11_AnnotatedPageWins ==
    \A i \in Visited :
        /\ AnnotatedPageOf(i) # None =>
                questions[i].page = AnnotatedPageOf(i)
        /\ AnnotatedPageOf(i) = None /\ AutomaticPageOf(i) # None =>
                questions[i].page = AutomaticPageOf(i)
        /\ AnnotatedPageOf(i) = None /\ AutomaticPageOf(i) = None =>
                questions[i].page = None

\* A question whose two pages differ has been given its annotated page.
C11_Witness ==
    \E i \in Visited :
        /\ AnnotatedPageOf(i) # None /\ AutomaticPageOf(i) # None
        /\ AnnotatedPageOf(i) # AutomaticPageOf(i)
        /\ questions[i].page = AnnotatedPageOf(i)

\* The record the i-th question visited leaves in the report.
RecordOf(i) ==
    [result |-> match_report[questions[i].qanta_id].result,
     annotated_error |-> AnnotatedErrorOf(i),
     automatic_error |-> None,
     annotated_page |-> AnnotatedPageOf(i),
     automatic_page |-> AutomaticPageOf(i)]

\* Every question visited has a record, the report has as many records as
\* questions were visited, and each record holds the pages and the error of
\* its question.
OneRecordPerQuestion ==
    /\ \A i \in Visited : questions[i].qanta_id \in DOMAIN match_report
    /\ Cardinality(DOMAIN match_report) = Len(questions)
    /\ \A i \in Visited : match_report[questions[i].qanta_id] = RecordOf(i)

DistinctIds ==
    \A i, j \in Visited : questions[i].qanta_id = questions[j].qanta_id => i = j

\* C12 as stated: for every list of questions, one record per question.
C12_OneRecordPerQuestion == OneRecordPerQuestion

\* C12 amended: for every list of questions of pairwise different qanta_id,
\* one record per question, as many records as questions, each record
\* describing its question.
C12_OneRecordPerDistinctId == DistinctIds => OneRecordPerQuestion

\* Two questions of different qanta_id have been visited.
C12_Witness ==
    /\ Len(questions) = 2
    /\ questions[1].qanta_id # questions[2].qanta_id
    /\ Cardinality(DOMAIN match_report) = 2

\* The questions visited, each with what maybe_assign returned for it.
Annotated ==
    [i \in Visited |-> <<questions[i], annotations[i], AutomaticPageOf(i)>>]

NoPage(z) == z[2][1] = None /\ z[3] = None

TrainFolds == {GUESSER_TRAIN_FOLD, BUZZER_TRAIN_FOLD}

QuestionsOf(zs) == [i \in 1..Len(zs) |-> zs[i][1]]

\* C13: the train list is the questions of neither page whose fold is one of
\* the two training folds, the test list the questions of neither page of
\* any other fold, each in the order visited: a question of neither page is
\* once in one list, a question with a page is in none.
C13_UnmatchedPartition ==
    /\ train_unmatched_questions =
            QuestionsOf(SelectSeq(Annotated,
                LAMBDA z : NoPage(z) /\ z[1].fold \in TrainFolds))
    /\ test_unmatched_questions =
            QuestionsOf(SelectSeq(Annotated,
                LAMBDA z : NoPage(z) /\ z[1].fold \notin TrainFolds))

\* A buzzer-train question and a question of another fold, both of neither
\* page, and a question with a page have been visited.
C13_Witness ==
    /\ \E i \in Visited : /\ NoPage(Annotated[i])
                            /\ questions[i].fold = BUZZER_TRAIN_FOLD
    /\ \E i \in Visited : /\ NoPage(Annotated[i])
                            /\ questions[i].fold \notin TrainFolds
    /\ Len(train_unmatched_questions) = 1
    /\ Len(test_unmatched_questions) = 1

LatestOf(id) ==
    CHOOSE i \in Visited :
        /\ questions[i].qanta_id = id
        /\ \A j \in Visited : questions[j].qanta_id = id => j <= i

\* C15: every record of the report holds the page and the error maybe_assign
\* returned for its question, the answer map's value for the question's
\* answer (none when the answer is not a key) and no automatic error.
C15_RecordFields ==
    \A id \in DOMAIN match_report :
        /\ \E i \in Visited : questions[i].qanta_id = id
        /\ match_report[id].annotated_page = AnnotatedPageOf(LatestOf(id))
        /\ match_report[id].annotated_error = AnnotatedErrorOf(LatestOf(id))
        /\ match_report[id].automatic_page = AutomaticPageOf(LatestOf(id))
        /\ match_report[id].automatic_error = None

\* The report has a record with an error and one with both pages.
C15_Witness ==
    /\ \E id \in DOMAIN match_report :
            match_report[id].annotated_error # None
    /\ \E id \in DOMAIN match_report :
            /\ match_report[id].annotated_page # None
            /\ match_report[id].automatic_page # None

\* ------------------------------------------------------------ csv claims

\* The rows of the csv whose target is a title, and the others.
KeptRows == {i \in DOMAIN redirect_csv : redirect_csv[i][2] \in wiki_titles}

DroppedRows == DOMAIN redirect_csv \ KeptRows

\* C16: once read_wiki_redirects has returned, every value of the dict is a
\* title; every key is the source of a row whose target is a title; every
\* row whose target is a title has its source as a key, under the target of
\* the last such row of that source; and the count logged is the number of
\* the other rows.
C16_RedirectsRetained ==
    pc = "read" =>
        /\ \A k \in 1..Len(wiki_redirects_source) :
                /\ wiki_redirects_source[k][2] \in wiki_titles
                /\ \E i \in KeptRows :
                        redirect_csv[i][1] = wiki_redirects_source[k][1]
        /\ \A i \in KeptRows :
                \E k \in 1..Len(wiki_redirects_source) :
                    /\ wiki_redirects_source[k][1] = redirect_csv[i][1]
                    /\ \E j \in KeptRows :
                        /\ j >= i
                        /\ redirect_csv[j][1] = redirect_csv[i][1]
                        /\ redirect_csv[j][2] = wiki_redirects_source[k][2]
                        /\ \A l \in KeptRows :
                                redirect_csv[l][1] = redirect_csv[i][1] => l <= j
        /\ n_logged = <<Cardinality(DroppedRows)>>

\* A csv with a row that was kept and two rows that were dropped.
C16_Witness ==
    /\ pc = "read"
    /\ KeptRows # {}
    /\ Cardinality(DroppedRows) = 2
    /\ n_logged = <<2>>
    /\ Len(wiki_redirects_source) = 1

\* ----------------------------------------------------------- rule claims

\* The match rule of the pass gives None for the expansion to visit next.
MatchRuleGivesNone ==
    /\ pc = "match" /\ match_i <= Len(match_rules) /\ ~PassDone
    /\ ApplyMatchRule(match_rules[match_i],
                      iter_order[original_ans][cand_i]) = None

\* The expansion rule to apply next gives None for an unmapped answer.
ExpansionRuleFails ==
    /\ pc = "expand" /\ expansion_i <= Len(expansion_rules)
    /\ \E raw_ans \in heap[unmapped_answers] :
            \E i \in 1..Len(ApplyExpansionRule(expansion_rules[expansion_i],
                                                raw_ans)) :
                ApplyExpansionRule(expansion_rules[expansion_i],
                                   raw_ans)[i] = None

\* The cursor of the passes is at an expansion for which the rule gives None.
MatchRuleGivesNoneAtCursor ==
    ApplyMatchRule(match_rules[match_i],
                   iter_order[original_ans][cand_i]) = None

\* C17: the step of a match rule that gives None for the expansion visited,
\* and the step of an expansion rule that fails on an answer, end the run
\* with the error raised; a run that raised goes no further and returns
\* nothing.
C17_FailingRuleAborts ==
    [][/\ MatchRuleGivesNone \/ ExpansionRuleFails => pc' = "raised"
       /\ pc = "raised" => pc' = "raised"
       /\ pc' = "done" => ~MatchRuleGivesNone /\ ~ExpansionRuleFails]_vars

\* A run has raised in the pass of its second match rule.
C17_Witness ==
    /\ pc = "raised"
    /\ match_rules = match_rules_with_morphy
    /\ match_i = 2
    /\ MatchRuleGivesNoneAtCursor

SameCandidatesAndUnmapped ==
    (pc = "done" /\ run = "second") =>
        /\ expansion_answer_map = first_result[3]
        /\ heap[unmapped_answers] = first_result[2]

\* ------------------------------------------------------ expansion claims

\* The loop of lines 50-54 has applied the last expansion rule.
ExpansionOver == pc = "expand" /\ expansion_i > Len(expansion_rules)

\* The trimmed outputs of the r-th expansion rule applied to ans itself.
TrimmedOutputs(r, ans) ==
    {strip(ApplyExpansionRule(expansion_rules[r], ans)[i]) :
        i \in 1..Len(ApplyExpansionRule(expansion_rules[r], ans))}

\* C19: after the expansion phase the candidates of an answer are the answer
\* itself and the trimmed outputs of each expansion rule applied to the
\* answer itself, nothing else.
C19_IndependentExpansion ==
    ExpansionOver =>
        \A ans \in DOMAIN expansion_answer_map :
            expansion_answer_map[ans] =
                {ans} \cup UNION {TrimmedOutputs(r, ans) :
                                    r \in 1..Len(expansion_rules)}

\* The candidates of "The Cát" after the expansion phase: itself, the
\* trimmed output of the 'the' rule and the output of the 'unicode' rule.
C19_Witness ==
    /\ ExpansionOver
    /\ The_Cat_acute \in DOMAIN expansion_answer_map
    /\ expansion_answer_map[The_Cat_acute] =
            {The_Cat_acute, <<"c",a_acute,"t">>,
             <<"T","h","e"," ","C","a","t">>}

\* Every answer is among its candidates.
OriginalAmongCandidates(eam) == \A ans \in DOMAIN eam : ans \in eam[ans]

\* C20: in every state every answer is among its candidates; a step of the
\* expansion phase leaves every candidate set a superset of what it was; a
\* step of the match passes leaves every candidate set as it was.
C20_CandidatesOnlyGrow ==
    [][/\ OriginalAmongCandidates(expansion_answer_map)
       /\ OriginalAmongCandidates(expansion_answer_map')
       /\ pc = "expand" =>
            \A ans \in DOMAIN expansion_answer_map :
                /\ ans \in DOMAIN expansion_answer_map'
                /\ expansion_answer_map[ans] \subseteq
                        expansion_answer_map'[ans]
       /\ pc = "match" => expansion_answer_map' = expansion_answer_map]_vars

\* A pass is over and "Cat" has the candidate the 'the' rule added.
C20_Witness ==
    /\ pc = "match" /\ match_i > 1
    /\ Cat \in DOMAIN expansion_answer_map
    /\ expansion_answer_map[Cat] = {Cat, <<"t","h","e"," ","c","a","t">>}

\* ----------------------------------------------------- single rule claims

\* The named rule has returned.
Returned(name) == pc = "returned" /\ rule_name = name

\* What a rule produces of a candidate: it only when it differs from ans.
OnlyIfDifferent(candidate, ans) ==
    IF candidate # ans THEN <<candidate>> ELSE <<>>

\* s from position i on without its groups: each "(" that has a ")" two or
\* more places further on goes with everything up to the nearest such ")".
RECURSIVE WithoutGroupsFrom(_, _)
WithoutGroupsFrom(s, i) ==
    IF i > Len(s) THEN <<>>
    ELSE LET closers == {j \in (i + 2)..Len(s) : s[j] = ")"}
         IN  IF s[i] = "(" /\ closers # {}
             THEN WithoutGroupsFrom(s,
                    1 + CHOOSE j \in closers : \A k \in closers : j <= k)
             ELSE <<s[i]>> \o WithoutGroupsFrom(s, i + 1)

\* The number of groups of s from position i on.
RECURSIVE GroupsFrom(_, _)
GroupsFrom(s, i) ==
    IF i > Len(s) THEN 0
    ELSE LET closers == {j \in (i + 2)..Len(s) : s[j] = ")"}
         IN  IF s[i] = "(" /\ closers # {}
             THEN 1 + GroupsFrom(s,
                    1 + CHOOSE j \in closers : \A k \in closers : j <= k)
             ELSE GroupsFrom(s, i + 1)

\* C21 as stated: optional_text_rule produces the answer without its first
\* group, the later groups kept, and only when that differs from the answer.
C21_FirstGroupOnly ==
    Returned("optional-text") =>
        rule_returned =
            OnlyIfDifferent(SubOptional_first_only(rule_arg), rule_arg)

\* C21 amended: optional_text_rule produces the answer without any of its
\* groups, and only when that differs from the answer.
C21_EveryGroupRemoved ==
    Returned("optional-text") =>
        rule_returned =
            OnlyIfDifferent(WithoutGroupsFrom(rule_arg, 1), rule_arg)

\* The rule has returned for an answer of two groups.
C21_Witness ==
    /\ Returned("optional-text")
    /\ GroupsFrom(rule_arg, 1) = 2
    /\ rule_returned = <<WithoutGroupsFrom(rule_arg, 1)>>

\* s without the occurrences of "the" in whatever case, the case of the
\* other characters kept.
RECURSIVE WithoutTheAnyCase(_)
WithoutTheAnyCase(s) ==
    IF s = <<>> THEN <<>>
    ELSE IF StartsWith(lower(s), <<"t","h","e">>)
         THEN WithoutTheAnyCase(Drop(s, 3))
         ELSE <<Head(s)>> \o WithoutTheAnyCase(Tail(s))

\* C22 as stated: the_rule produces one candidate, the answer in its own case
\* without its occurrences of "the" when its lower case contains "the", and
\* the answer in its own case after "the " otherwise.
C22_TheToggleKeepsCase ==
    Returned("the") =>
        rule_returned =
            IF Contains(lower(rule_arg), <<"t","h","e">>)
            THEN <<WithoutTheAnyCase(rule_arg)>>
            ELSE <<(<<"t","h","e"," ">> \o rule_arg)>>

\* C22 amended: the_rule produces one candidate, the lower-cased answer
\* without its occurrences of "the", found left to right and not overlapping,
\* when it contains "the", and the lower-cased answer after "the " otherwise.
C22_TheToggleLowerCases ==
    Returned("the") =>
        /\ Len(rule_returned) = 1
        /\ rule_returned[1] =
            IF Contains(lower(rule_arg), <<"t","h","e">>)
            THEN ReplaceFrom(lower(rule_arg), <<"t","h","e">>, <<>>)
            ELSE <<"t","h","e"," ">> \o lower(rule_arg)

\* The rule has returned " b" for "The B".
C22_Witness ==
    /\ Returned("the")
    /\ rule_arg = <<"T","h","e"," ","B">>
    /\ rule_returned = << <<" ","b">> >>

\* ------------------------------------------------------ termination claim

\* The place of the passes in the items and their candidates has moved on.
CursorForward ==
    \/ item_i' > item_i
    \/ item_i' = item_i /\ cand_i' > cand_i

\* C23: a call with the rule lists of create_expansion_rules and
\* create_match_rules returns; the passes take the match rules one by one in
\* list order, each pass visits the candidates once, a pass ends only when
\* it has visited every item, and the call returns only after the pass of
\* the last match rule.
C23_TerminatesAfterLastPass ==
    /\ <>(pc = "done")
    /\ [][/\ match_i' # match_i =>
                /\ PassComplete
                /\ match_i' = match_i + 1
          /\ pc = "match" /\ pc' = "match" /\ match_i' = match_i =>
                CursorForward
          /\ pc' = "done" =>
                pc = "match" /\ match_i = Len(match_rules) + 1]_vars

\* A call on two answers has returned after the pass of the last match rule.
C23_Witness ==
    /\ pc = "done"
    /\ match_i = Len(match_rules) + 1
    /\ Cardinality(heap["caller"]) = 2

====
